---- MODULE Spec2Model ----
(***************************************************************************)
(* Model of the OAuth2 token handling of finautapi_client                  *)
(* (src/finautapi_client/auth.py, class OAuth2Handler).                    *)
(*                                                                         *)
(* Time is counted in whole seconds.  One call of get_headers is one       *)
(* atomic step (the library is used synchronously, one call at a time);    *)
(* the clock advances between calls.  Further sections model               *)
(* FinAutAPIClient.request (client.py), BasicAuthHandler, two threads      *)
(* inside one handler, and two client instances.                           *)
(***************************************************************************)
EXTENDS Integers, Sequences, FiniteSets, TLC

(* ----------------------------- bounds ---------------------------------- *)
\* number of clock advances explored in one behaviour
MaxTicks == 3
\* size of a short clock advance, in seconds
Quantum == 30

(* ------------------------- program constants --------------------------- *)
\* self._refresh_buffer = 60
RefreshBuffer == 60
\* token_data.get('expires_in', 3600)
DefaultExpiresIn == 3600

(* --------------------------- Python values ----------------------------- *)
None == [t |-> "None"]
Str(s) == [t |-> "str", v |-> s]
Int_(n) == [t |-> "int", v |-> n]
DateTime(n) == [t |-> "datetime", v |-> n]
List == [t |-> "list"]

\* truth value of an object, as used by `not x`
Truthy(x) ==
    CASE x.t = "None" -> FALSE
      [] x.t = "str" -> x.v # ""
      [] x.t = "int" -> x.v # 0
      [] OTHER -> TRUE

\* str(x), as used by an f-string
Format(x) ==
    CASE x.t = "None" -> "None"
      [] x.t = "str" -> x.v
      [] OTHER -> "<object>"

(* ---------------------- token endpoint responses ----------------------- *)
\* token strings the endpoint may issue
TokenStrings == {"tok1", "tok2"}
\* values of the access_token field of a response body: a token, an empty
\* string, or null
TokenValues == {Str(s) : s \in TokenStrings} \cup {Str(""), None}
\* values of the expires_in field of a response body: negative, zero, less
\* than the refresh buffer, more than it, or a number sent as a string
ExpiresInValues ==
    {Int_(n) : n \in {0 - Quantum, 0, Quantum, RefreshBuffer + Quantum}}
        \cup {Str("3600")}

\* JSON objects: functions from the keys present to their values
JsonObjects ==
    { [k \in {"access_token", "expires_in"} |-> IF k = "access_token" THEN Str(a) ELSE e] :
          a \in TokenStrings, e \in ExpiresInValues }
    \cup { [k \in {"access_token"} |-> a] : a \in TokenValues }
    \cup { [k \in {"expires_in"} |-> Int_(DefaultExpiresIn)] }
    \cup { [k \in {"invalid"} |-> Str("response")] }

\* exception classes, each with the classes it inherits from
RequestException == {"RequestException"}
HTTPError == {"HTTPError", "RequestException"}
ConnectTimeout == {"Timeout", "RequestException"}
\* requests >= 2.27 raises its own JSONDecodeError from Response.json(),
\* which is both a RequestException and a ValueError; older versions raise
\* json.JSONDecodeError, a plain ValueError.  setup.py allows both.
RequestsJSONDecodeError == {"JSONDecodeError", "RequestException", "ValueError"}
JsonJSONDecodeError == {"JSONDecodeError", "ValueError"}
KeyError == {"KeyError", "LookupError"}
TypeError == {"TypeError"}
NoException == {}

\* what requests.post(...) can produce
Responses ==
    { [post_raises |-> ConnectTimeout] }
    \cup { [post_raises |-> NoException, status_code |-> s,
            json_raises |-> NoException, json |-> [t |-> "dict", v |-> [k \in {"error"} |-> Str("invalid_client")]]] :
              s \in {401, 500} }
    \cup { [post_raises |-> NoException, status_code |-> 200,
            json_raises |-> x, json |-> None] :
              x \in {RequestsJSONDecodeError, JsonJSONDecodeError} }
    \cup { [post_raises |-> NoException, status_code |-> 200,
            json_raises |-> NoException, json |-> List] }
    \cup { [post_raises |-> NoException, status_code |-> 200,
            json_raises |-> NoException, json |-> [t |-> "dict", v |-> o]] :
              o \in JsonObjects }

NoResponse == [post_raises |-> {"not called"}]

(* ------------------------------ state ---------------------------------- *)
VARIABLES
    _access_token,   \* OAuth2Handler._access_token
    _token_expires,  \* OAuth2Handler._token_expires
    now,             \* datetime.now()
    ticks,           \* number of clock advances so far
    last,            \* the most recent call and what it did
    credentials,     \* OAuth2Handler.client_id, .client_secret, .token_url
    peer,            \* the OAuth2Handler of a second FinAutAPIClient
    threads,         \* each thread's position inside get_headers()
    basic,           \* a BasicAuthHandler and its most recent get_headers()
    delivered,       \* the token of the latest successful refresh, None
                     \* before the first one and after invalidate_token()
    pager,           \* a call of ResultResource.get_user_results or
                     \* get_recent_results and the pages it has fetched
    persnrs          \* a call of generate_test_persnrs and what it returned

vars == <<_access_token, _token_expires, now, ticks, last,
          credentials, peer, threads, basic, delivered, pager, persnrs>>

\* the objects an operation of the one OAuth2Handler does not touch
other_objects == <<credentials, peer, threads, basic, pager, persnrs>>

(* --------------------------- OAuth2Handler ----------------------------- *)
\* mutant of raise_for_status: the status of the response is never examined
raise_for_status_skipped(resp) == NoException

\* Response.raise_for_status(): HTTPError for a 4xx or 5xx status
raise_for_status(resp) ==
    IF resp.status_code >= 400 /\ resp.status_code < 600 THEN HTTPError ELSE NoException

\* mutant of _needs_refresh: the buffer is taken in minutes, not seconds
_needs_refresh_minutes(tok, exp, t) ==
    IF ~Truthy(tok) \/ ~Truthy(exp)
    THEN TRUE
    ELSE t >= exp.v - 60 * RefreshBuffer

\* mutant of _needs_refresh: the comparison is strict, so the boundary
\* instant is not refreshed
_needs_refresh_strict(tok, exp, t) ==
    IF ~Truthy(tok) \/ ~Truthy(exp)
    THEN TRUE
    ELSE t > exp.v - RefreshBuffer

\* mutant of _needs_refresh: the comparison is the wrong way round
_needs_refresh_inverted(tok, exp, t) ==
    IF ~Truthy(tok) \/ ~Truthy(exp)
    THEN TRUE
    ELSE t <= exp.v - RefreshBuffer

\* OAuth2Handler._needs_refresh
_needs_refresh(tok, exp, t) ==
    IF ~Truthy(tok) \/ ~Truthy(exp)
    THEN TRUE
    ELSE t >= exp.v - RefreshBuffer

\* token_data.get('expires_in', 3600)
get_expires_in(token_data) ==
    IF "expires_in" \in DOMAIN token_data
    THEN token_data["expires_in"]
    ELSE Int_(DefaultExpiresIn)

\* mutant of expiry_time: the refresh buffer is taken off when the expiry is
\* stored
expiry_time_less_buffer(t, expires_in) == DateTime(t + expires_in.v - RefreshBuffer)

\* datetime.now() + timedelta(seconds=expires_in)
expiry_time(t, expires_in) == DateTime(t + expires_in.v)

\* the try block of OAuth2Handler._refresh_token: the state it leaves and
\* the exception it raises, if any
RefreshTry(tok, exp, t, resp) ==
    IF resp.post_raises # NoException
    THEN [tok |-> tok, exp |-> exp, raised |-> resp.post_raises]
    ELSE IF raise_for_status(resp) # NoException
    THEN [tok |-> tok, exp |-> exp, raised |-> raise_for_status(resp)]
    ELSE IF resp.json_raises # NoException
    THEN [tok |-> tok, exp |-> exp, raised |-> resp.json_raises]
    ELSE IF resp.json.t # "dict"
    THEN [tok |-> tok, exp |-> exp, raised |-> TypeError]
    ELSE IF "access_token" \notin DOMAIN resp.json.v
    THEN [tok |-> tok, exp |-> exp, raised |-> KeyError]
    ELSE LET token_data == resp.json.v
             newtok == token_data["access_token"]
             expires_in == get_expires_in(token_data)
         IN  IF expires_in.t # "int"
             THEN [tok |-> newtok, exp |-> exp, raised |-> TypeError]
             ELSE [tok |-> newtok, exp |-> expiry_time(t, expires_in),
                   raised |-> NoException]

FailedToObtain == "AuthenticationError: Failed to obtain access token"
InvalidResponse == "AuthenticationError: Invalid token response"

\* the except clauses of OAuth2Handler._refresh_token, tried in order
except_clauses(raised) ==
    IF raised = NoException THEN "none"
    ELSE IF "RequestException" \in raised THEN FailedToObtain
    ELSE IF "KeyError" \in raised \/ "ValueError" \in raised THEN InvalidResponse
    ELSE CHOOSE c \in raised : TRUE

\* OAuth2Handler._refresh_token
_refresh_token(tok, exp, t, resp) ==
    LET r == RefreshTry(tok, exp, t, resp)
    IN  [tok |-> r.tok, exp |-> r.exp, raised |-> except_clauses(r.raised)]

\* mutant of access_token: a failed refresh falls back on the stored token
access_token_fallback(tok, exp, t, resp) ==
    IF _needs_refresh(tok, exp, t)
    THEN LET r == _refresh_token(tok, exp, t, resp)
         IN  IF r.raised # "none" /\ Truthy(tok)
             THEN [tok |-> tok, exp |-> exp, raised |-> "none",
                   value |-> tok, calls |-> 1]
             ELSE [tok |-> r.tok, exp |-> r.exp, raised |-> r.raised,
                   value |-> r.tok, calls |-> 1]
    ELSE [tok |-> tok, exp |-> exp, raised |-> "none",
          value |-> tok, calls |-> 0]

\* OAuth2Handler.access_token (the property)
access_token(tok, exp, t, resp) ==
    IF _needs_refresh(tok, exp, t)
    THEN LET r == _refresh_token(tok, exp, t, resp)
         IN  [tok |-> r.tok, exp |-> r.exp, raised |-> r.raised,
              value |-> r.tok, calls |-> 1]
    ELSE [tok |-> tok, exp |-> exp, raised |-> "none",
          value |-> tok, calls |-> 0]

\* OAuth2Handler.get_headers: {'Authorization': f'Bearer {self.access_token}'}
get_headers(tok, exp, t, resp) ==
    LET r == access_token(tok, exp, t, resp)
    IN  [tok |-> r.tok, exp |-> r.exp, raised |-> r.raised, calls |-> r.calls,
         headers |-> IF r.raised = "none"
                     THEN <<"Bearer ", Format(r.value)>>
                     ELSE <<>>]

\* mutant of invalidate_token: the assignments miss the object's fields
invalidate_token_noop(tok, exp) == [tok |-> tok, exp |-> exp]

\* mutant of invalidate_token: only the token is cleared
invalidate_token_token_only(tok, exp) == [tok |-> None, exp |-> exp]

\* OAuth2Handler.invalidate_token
invalidate_token(tok, exp) == [tok |-> None, exp |-> None]

(* ------------------------------ actions -------------------------------- *)
\* `last` describes the most recent call: which operation (op), the
\* operation called before it (after), when (at), the token state it found
\* (before_tok, before_exp), the token endpoint's answer when the endpoint
\* was called (resp), the number of token-endpoint calls (calls), the
\* exception raised (raised) and the headers returned (headers).
NoCall == [op |-> "none", after |-> "none", at |-> 0,
           before_tok |-> None, before_exp |-> None,
           resp |-> NoResponse, calls |-> 0, raised |-> "none",
           headers |-> <<>>]

\* the arguments of OAuth2Handler.__init__, as the handler keeps them
Credentials(client_id, client_secret, token_url) ==
    [client_id |-> client_id, client_secret |-> client_secret,
     token_url |-> token_url]

\* FinAutAPIClient.__init__: f"{self.host}/o/token/" for the default host
DefaultTokenUrl == "https://api.norsktest.no/o/token/"

\* no second client has been constructed
NoPeer == [constructed |-> FALSE]

\* get_headers() is called from one thread only
NoThreads == <<>>

\* no method of ResultResource has been called
NoPager == [pc |-> "idle"]

\* generate_test_persnrs has not been called
NoPersnrs == [called |-> FALSE]

\* no BasicAuthHandler has been constructed
NoBasicAuthHandler == [constructed |-> FALSE]

\* the token of the latest successful refresh, after a call that made
\* calls calls of the token endpoint, raised raised and left token tok
delivered_after(d, calls, raised, tok) ==
    IF calls = 1 /\ raised = "none" THEN tok ELSE d

\* OAuth2Handler.__init__
Init ==
    /\ _access_token = None
    /\ _token_expires = None
    /\ now = 0
    /\ ticks = 0
    /\ last = NoCall
    /\ credentials = Credentials("id1", "secret1", DefaultTokenUrl)
    /\ peer = NoPeer
    /\ threads = NoThreads
    /\ basic = NoBasicAuthHandler
    /\ delivered = None
    /\ pager = NoPager
    /\ persnrs = NoPersnrs

\* a caller invokes get_headers(); the token endpoint, if asked, answers resp
GetHeadersAnswered(resp) ==
        LET r == get_headers(_access_token, _token_expires, now, resp)
        IN  /\ _access_token' = r.tok
            /\ _token_expires' = r.exp
            /\ last' = [op |-> "get_headers", after |-> last.op, at |-> now,
                        before_tok |-> _access_token,
                        before_exp |-> _token_expires,
                        resp |-> IF r.calls = 1 THEN resp ELSE NoResponse,
                        calls |-> r.calls, raised |-> r.raised,
                        headers |-> r.headers]
            /\ delivered' = delivered_after(delivered, r.calls, r.raised, r.tok)
            /\ UNCHANGED <<now, ticks>>
            /\ UNCHANGED other_objects

GetHeaders == \E resp \in Responses : GetHeadersAnswered(resp)

\* a caller invokes invalidate_token()
InvalidateToken ==
    LET r == invalidate_token(_access_token, _token_expires)
    IN  /\ _access_token' = r.tok
        /\ _token_expires' = r.exp
        /\ last' = [op |-> "invalidate_token", after |-> last.op, at |-> now,
                    before_tok |-> _access_token,
                    before_exp |-> _token_expires,
                    resp |-> NoResponse, calls |-> 0, raised |-> "none",
                    headers |-> <<>>]
        /\ delivered' = None
        /\ UNCHANGED <<now, ticks>>
        /\ UNCHANGED other_objects

\* time passes between two calls: a short while, or up to the refresh
\* boundary of a token issued for the default lifetime
Tick ==
    /\ ticks < MaxTicks
    /\ \E d \in {Quantum, DefaultExpiresIn - RefreshBuffer} : now' = now + d
    /\ ticks' = ticks + 1
    /\ UNCHANGED <<_access_token, _token_expires, last, delivered>>
    /\ UNCHANGED other_objects

Next == GetHeaders \/ InvalidateToken \/ Tick

Spec == Init /\ [][Next]_vars

\* answers of the token endpoint with a token string and a lifetime, if
\* any, that is an integer above the refresh buffer
WellFormedSuccesses ==
    {r \in Responses :
        /\ r.post_raises = NoException /\ r.status_code = 200
        /\ r.json_raises = NoException /\ r.json.t = "dict"
        /\ "access_token" \in DOMAIN r.json.v
        /\ r.json.v["access_token"] \in {Str(x) : x \in TokenStrings}
        /\ "expires_in" \in DOMAIN r.json.v =>
              /\ r.json.v["expires_in"].t = "int"
              /\ r.json.v["expires_in"].v > RefreshBuffer}

\* the caller keeps calling get_headers() and the token endpoint does not
\* answer badly for ever
SpecLive ==
    /\ Init /\ [][Next]_vars
    /\ WF_vars(\E resp \in WellFormedSuccesses : GetHeadersAnswered(resp))

(* -------------------------- FinAutAPIClient ---------------------------- *)
\* exceptions requests.request(...) can raise, each with the classes it
\* inherits from
ReadTimeout == {"ReadTimeout", "Timeout", "RequestException"}
RequestsConnectionError == {"ConnectionError", "RequestException"}
TooManyRedirects == {"TooManyRedirects", "RequestException"}

\* status codes of API answers: successes, the last code below 400, every
\* code the client names, other 4xx codes and 5xx codes
ApiStatusCodes == {200, 399, 400, 401, 403, 404, 422, 429, 499, 500, 503}

\* what requests.request(...) can produce: an exception, or a response
\* with a status code and, perhaps, a Retry-After header
ApiResponses ==
    { [raises |-> x] : x \in {ReadTimeout, RequestsConnectionError, TooManyRedirects} }
    \cup { [raises |-> NoException, status_code |-> c, retry_after |-> None] :
              c \in ApiStatusCodes }
    \cup { [raises |-> NoException, status_code |-> 429, retry_after |-> Str("60")] }

\* the token endpoint's answers while the client is used: a rejection, a
\* token for the default lifetime, a token for a short one
ClientTokenResponses ==
    { r \in Responses :
        /\ r.post_raises = NoException
        /\ \/ r.status_code = 401
           \/ /\ r.status_code = 200 /\ r.json_raises = NoException
              /\ r.json.t = "dict"
              /\ \/ r.json.v = [k \in {"access_token"} |-> Str("tok1")]
                 \/ r.json.v = [k \in {"access_token", "expires_in"} |->
                                   IF k = "access_token" THEN Str("tok2")
                                   ELSE Int_(RefreshBuffer + Quantum)] }

NoApiResponse == [raises |-> {"not called"}]

\* the `headers` argument of FinAutAPIClient.request: none, an additional
\* header, or an Authorization header of the caller's own
EmptyDict == [k \in {} |-> <<>>]
HeaderArguments ==
    { EmptyDict,
      [k \in {"X-Request-Id"} |-> <<"abc">>],
      [k \in {"Authorization"} |-> <<"Basic ", "dXNlcjpwdw==">>] }

\* the arguments of a request: whether a json payload is given, and the
\* headers argument
RequestArguments ==
    { [json |-> "X-Request-Id" \in DOMAIN h, headers |-> h] : h \in HeaderArguments }

\* mutant of dict_update: entries already present are kept
dict_update_keep(d, e) ==
    [k \in DOMAIN d \cup DOMAIN e |-> IF k \in DOMAIN d THEN d[k] ELSE e[k]]

\* dict.update
dict_update(d, e) ==
    [k \in DOMAIN d \cup DOMAIN e |-> IF k \in DOMAIN e THEN e[k] ELSE d[k]]

\* FinAutAPIException.__init__ and RateLimitError.__init__: the attributes
\* of an exception object
FinAutAPIException(cls, message, status_code) ==
    [cls |-> cls, message |-> message, status_code |-> status_code]
RateLimitError(message, retry_after) ==
    [cls |-> "RateLimitError", message |-> message, status_code |-> None,
     retry_after |-> retry_after]
NoError == [cls |-> "none"]

\* mutant of auth_error: the failure is reported as a connection error
auth_error_wrapped(raised) ==
    FinAutAPIException("FinAutAPIException", "Connection error", None)

\* the exception object a failed get_headers hands to the caller of request
auth_error(raised) ==
    IF raised = FailedToObtain
    THEN FinAutAPIException("AuthenticationError", "Failed to obtain access token", None)
    ELSE IF raised = InvalidResponse
    THEN FinAutAPIException("AuthenticationError", "Invalid token response", None)
    ELSE [cls |-> raised]

\* mutant of on_unauthorized: the token is kept when the API answers 401
on_unauthorized_keep(tok, exp) == [tok |-> tok, exp |-> exp]

\* self.auth.invalidate_token() in the 401 branch of _handle_response_errors
on_unauthorized(tok, exp) == invalidate_token(tok, exp)

\* mutant of exception_class: 500 itself is not taken for a server error
exception_class_above_500(code) ==
    IF code = 401 THEN "AuthenticationError"
    ELSE IF code = 403 THEN "PermissionDeniedError"
    ELSE IF code = 404 THEN "NotFoundError"
    ELSE IF code = 422 THEN "ValidationError"
    ELSE IF code = 429 THEN "RateLimitError"
    ELSE IF code > 500 THEN "ServerError"
    ELSE "FinAutAPIException"

\* mutant of exception_class: 403 is handled by the 401 branch as well
exception_class_403_as_401(code) ==
    IF code = 401 \/ code = 403 THEN "AuthenticationError"
    ELSE IF code = 404 THEN "NotFoundError"
    ELSE IF code = 422 THEN "ValidationError"
    ELSE IF code = 429 THEN "RateLimitError"
    ELSE IF code >= 500 THEN "ServerError"
    ELSE "FinAutAPIException"

\* the if/elif chain of _handle_response_errors: the class of the exception
\* raised for a status code of 400 or more
exception_class(code) ==
    IF code = 401 THEN "AuthenticationError"
    ELSE IF code = 403 THEN "PermissionDeniedError"
    ELSE IF code = 404 THEN "NotFoundError"
    ELSE IF code = 422 THEN "ValidationError"
    ELSE IF code = 429 THEN "RateLimitError"
    ELSE IF code >= 500 THEN "ServerError"
    ELSE "FinAutAPIException"

\* FinAutAPIClient._handle_response_errors: the exception raised, and the
\* token state it leaves
_handle_response_errors(response, tok, exp) ==
    LET code == response.status_code
        cls == exception_class(code)
        kept == [tok |-> tok, exp |-> exp]
        state == IF cls = "AuthenticationError" THEN on_unauthorized(tok, exp) ELSE kept
    IN  IF code < 400
        THEN [tok |-> tok, exp |-> exp, error |-> NoError]
        ELSE [tok |-> state.tok, exp |-> state.exp,
              error |-> IF cls = "RateLimitError"
                        THEN RateLimitError("detail", response.retry_after)
                        ELSE FinAutAPIException(cls, "detail", Int_(code))]

\* the except clauses of FinAutAPIClient.request, tried in order
request_except_clauses(raises) ==
    IF "Timeout" \in raises
    THEN FinAutAPIException("FinAutAPIException", "Request timed out", None)
    ELSE IF "ConnectionError" \in raises
    THEN FinAutAPIException("FinAutAPIException", "Connection error", None)
    ELSE [cls |-> CHOOSE c \in raises : c # "RequestException"]

\* FinAutAPIClient.request from the point where get_headers has answered
\* (auth): the headers are merged, the API is called (it answers aresp) and
\* the answer is handled.  The result gives the token state left (tok, exp),
\* what get_headers did (auth), the network calls made, in order (net), the
\* headers of the API request (sent), the API's answer (api) and the
\* exception raised (error), NoError when the response is returned.
send_request(auth, has_json, headers, aresp) ==
    LET token_call == IF auth.calls = 1 THEN <<"token">> ELSE <<>>
        request_headers ==
            dict_update(
                dict_update(
                    [k \in {"Accept", "Content-Type"} |->
                        IF k = "Accept" \/ has_json
                        THEN <<"application/json">>
                        ELSE <<"application/x-www-form-urlencoded">>],
                    [k \in {"Authorization"} |-> auth.headers]),
                headers)
    IN  IF auth.raised # "none"
        THEN [tok |-> auth.tok, exp |-> auth.exp, auth |-> auth,
              net |-> token_call, sent |-> EmptyDict, api |-> NoApiResponse,
              error |-> auth_error(auth.raised)]
        ELSE IF aresp.raises # NoException
        THEN [tok |-> auth.tok, exp |-> auth.exp, auth |-> auth,
              net |-> token_call \o <<"api">>, sent |-> request_headers,
              api |-> aresp, error |-> request_except_clauses(aresp.raises)]
        ELSE LET h == _handle_response_errors(aresp, auth.tok, auth.exp)
             IN  [tok |-> h.tok, exp |-> h.exp, auth |-> auth,
                  net |-> token_call \o <<"api">>, sent |-> request_headers,
                  api |-> aresp, error |-> h.error]

\* FinAutAPIClient.request: tresp is the token endpoint's answer (if asked),
\* aresp the API's answer (if asked)
request(tok, exp, t, has_json, headers, tresp, aresp) ==
    send_request(get_headers(tok, exp, t, tresp), has_json, headers, aresp)

\* the effect of a request with result r on the state.  `last` records,
\* besides what it records of get_headers, the token state after the
\* get_headers step (auth_tok, auth_exp), the arguments, the network calls
\* in order (net), the headers of the API request (sent), the API's answer
\* (api) and the exception raised (error).
Requested(r, args, tresp) ==
    /\ _access_token' = r.tok
    /\ _token_expires' = r.exp
    /\ last' = [op |-> "request", at |-> now,
                before_tok |-> _access_token,
                before_exp |-> _token_expires,
                resp |-> tresp,
                calls |-> r.auth.calls, raised |-> r.auth.raised,
                headers |-> r.auth.headers,
                auth_tok |-> r.auth.tok, auth_exp |-> r.auth.exp,
                args |-> args, net |-> r.net, sent |-> r.sent,
                api |-> r.api, error |-> r.error]
    /\ delivered' = IF r.error.cls = "AuthenticationError" /\ r.api # NoApiResponse
                    THEN None
                    ELSE delivered_after(delivered, r.auth.calls,
                                         r.auth.raised, r.auth.tok)
    /\ UNCHANGED <<now, ticks>>
    /\ UNCHANGED other_objects

\* a caller makes a request through the client; the token endpoint and the
\* API answer when they are asked
Request ==
    \E tresp \in IF _needs_refresh(_access_token, _token_expires, now)
                 THEN ClientTokenResponses ELSE {NoResponse} :
      \E args \in RequestArguments :
        \E aresp \in IF get_headers(_access_token, _token_expires, now, tresp).raised = "none"
                     THEN ApiResponses ELSE {NoApiResponse} :
          Requested(request(_access_token, _token_expires, now, args.json,
                            args.headers, tresp, aresp), args, tresp)

NextClient == Request \/ InvalidateToken \/ Tick

SpecClient == Init /\ [][NextClient]_vars

(* ------------------------- BasicAuthHandler ---------------------------- *)
\* A str is a sequence of code points, bytes are a sequence of 0..255.

(* bound: how many returned headers the model remembers *)
MaxReturned == 2

\* "test_user" and "test_pass"
test_user == <<116, 101, 115, 116, 95, 117, 115, 101, 114>>
test_pass == <<116, 101, 115, 116, 95, 112, 97, 115, 115>>

\* usernames: "test_user", "", "a", "ab", "å", "u:1"
Usernames == {test_user, <<>>, <<97>>, <<97, 98>>, <<229>>, <<117, 58, 49>>}

\* passwords: "test_pass", "", "p", "pw", "???", "~~~", "p:w"
Passwords == {test_pass, <<>>, <<112>>, <<112, 119>>, <<63, 63, 63>>,
              <<126, 126, 126>>, <<112, 58, 119>>}

\* str.encode(): UTF-8, for code points below U+0800
RECURSIVE utf8_encode(_)
utf8_encode(s) ==
    IF s = <<>> THEN <<>>
    ELSE LET cp == Head(s)
         IN  (IF cp < 128 THEN <<cp>>
              ELSE <<192 + (cp \div 64), 128 + (cp % 64)>>)
             \o utf8_encode(Tail(s))

\* the base64 alphabet of RFC 4648
B64Alphabet ==
    <<"A", "B", "C", "D", "E", "F", "G", "H", "I", "J", "K", "L", "M",
      "N", "O", "P", "Q", "R", "S", "T", "U", "V", "W", "X", "Y", "Z",
      "a", "b", "c", "d", "e", "f", "g", "h", "i", "j", "k", "l", "m",
      "n", "o", "p", "q", "r", "s", "t", "u", "v", "w", "x", "y", "z",
      "0", "1", "2", "3", "4", "5", "6", "7", "8", "9", "+", "/">>

\* the character of a six-bit value
b64_char(v) == B64Alphabet[v + 1]

\* mutant of b64_group: the '=' padding is left out
b64_group_unpadded(b) ==
    LET n == b[1] * 65536 + (IF Len(b) > 1 THEN b[2] * 256 ELSE 0)
                          + (IF Len(b) > 2 THEN b[3] ELSE 0)
    IN  <<b64_char(n \div 262144), b64_char((n \div 4096) % 64)>>
        \o (IF Len(b) > 1 THEN <<b64_char((n \div 64) % 64)>> ELSE <<>>)
        \o (IF Len(b) > 2 THEN <<b64_char(n % 64)>> ELSE <<>>)

\* base64 of one group of one, two or three bytes: four characters
b64_group(b) ==
    LET n == b[1] * 65536 + (IF Len(b) > 1 THEN b[2] * 256 ELSE 0)
                          + (IF Len(b) > 2 THEN b[3] ELSE 0)
    IN  <<b64_char(n \div 262144), b64_char((n \div 4096) % 64)>>
        \o (IF Len(b) > 1 THEN <<b64_char((n \div 64) % 64)>> ELSE <<"=">>)
        \o (IF Len(b) > 2 THEN <<b64_char(n % 64)>> ELSE <<"=">>)

\* base64.b64encode: the characters of the encoding
RECURSIVE b64encode(_)
b64encode(bytes) ==
    IF bytes = <<>> THEN <<>>
    ELSE IF Len(bytes) <= 3 THEN b64_group(bytes)
    ELSE b64_group(SubSeq(bytes, 1, 3))
         \o b64encode(SubSeq(bytes, 4, Len(bytes)))

\* bytes.decode() of ASCII characters: the str they spell
RECURSIVE decode(_)
decode(chars) ==
    IF chars = <<>> THEN "" ELSE Head(chars) \o decode(Tail(chars))

\* BasicAuthHandler.get_headers
basic_get_headers(username, password) ==
    LET creds == username \o <<58>> \o password
        encoded == b64encode(utf8_encode(creds))
    IN  [encoded |-> encoded, net |-> <<>>,
         headers |-> [Authorization |-> <<"Basic ", decode(encoded)>>]]

\* BasicAuthHandler.__init__
BasicAuthHandler(username, password) ==
    [constructed |-> TRUE, username |-> username, password |-> password,
     returned |-> <<>>]

\* a BasicAuthHandler has been constructed with some username and password
InitBasic ==
    /\ Init!1 /\ Init!2 /\ Init!3 /\ Init!4 /\ Init!5 /\ Init!6
    /\ Init!7 /\ Init!8 /\ Init!10 /\ Init!11 /\ Init!12
    /\ \E u \in Usernames : \E pw \in Passwords :
          basic = BasicAuthHandler(u, pw)

\* a caller invokes get_headers() of the BasicAuthHandler; the model keeps
\* what the last MaxReturned calls returned
BasicGetHeaders ==
    LET r == basic_get_headers(basic.username, basic.password)
        kept == IF Len(basic.returned) < MaxReturned THEN basic.returned
                ELSE Tail(basic.returned)
    IN  /\ basic' = [basic EXCEPT !.returned = Append(kept, r)]
        /\ UNCHANGED <<_access_token, _token_expires, now, ticks, last,
                       credentials, peer, threads, delivered, pager,
                       persnrs>>

NextBasic == BasicGetHeaders

SpecBasic == InitBasic /\ [][NextBasic]_vars

(* ---------------------- two threads, one handler ----------------------- *)
\* OAuth2Handler takes no lock: a thread inside get_headers() can be
\* preempted between the check of access_token, the POST of _refresh_token,
\* the assignments after the answer, and the return.

Threads == {"t1", "t2"}

\* no thread is inside get_headers(); alone: no other thread has been inside
\* get_headers() since this thread entered it; header: the Authorization
\* value the thread's latest call returned, <<>> if it has not returned
InitThreads ==
    [t \in Threads |-> [pc |-> "idle", alone |-> TRUE, header |-> <<>>]]

\* mutant of after_check: the thread refreshes whatever the check said
after_check_always(stale) == "refresh"

\* access_token: 'if self._needs_refresh(): self._refresh_token()'
after_check(stale) == IF stale THEN "refresh" ELSE "return"

InitConcurrent ==
    /\ Init!1 /\ Init!2 /\ Init!3 /\ Init!4 /\ Init!5 /\ Init!6
    /\ Init!7 /\ Init!9 /\ Init!10 /\ Init!11 /\ Init!12
    /\ threads = InitThreads

\* thread t calls get_headers()
Call(t) ==
    /\ threads[t].pc = "idle"
    /\ threads' = [u \in Threads |->
          IF u = t
          THEN [pc |-> "check",
                alone |-> \A v \in Threads \ {t} : threads[v].pc = "idle",
                header |-> <<>>]
          ELSE IF threads[u].pc = "idle" THEN threads[u]
          ELSE [threads[u] EXCEPT !.alone = FALSE]]
    /\ UNCHANGED <<_access_token, _token_expires, now, ticks, last,
                   credentials, peer, basic, delivered, pager, persnrs>>

\* thread t evaluates self._needs_refresh()
Check(t) ==
    /\ threads[t].pc = "check"
    /\ threads' = [threads EXCEPT ![t].pc =
          after_check(_needs_refresh(_access_token, _token_expires, now))]
    /\ UNCHANGED <<_access_token, _token_expires, now, ticks, last,
                   credentials, peer, basic, delivered, pager, persnrs>>

\* thread t sends the POST of _refresh_token to the token endpoint
Post(t) ==
    /\ threads[t].pc = "refresh"
    /\ threads' = [threads EXCEPT ![t].pc = "wait"]
    /\ UNCHANGED <<_access_token, _token_expires, now, ticks, last,
                   credentials, peer, basic, delivered, pager, persnrs>>

\* the token endpoint answers thread t, which stores the token or raises
Receive(t) ==
    /\ threads[t].pc = "wait"
    /\ \E resp \in ClientTokenResponses :
          LET r == _refresh_token(_access_token, _token_expires, now, resp)
          IN  /\ _access_token' = r.tok
              /\ _token_expires' = r.exp
              /\ threads' = [threads EXCEPT ![t].pc =
                    IF r.raised = "none" THEN "return" ELSE "idle"]
              /\ delivered' = delivered_after(delivered, 1, r.raised, r.tok)
    /\ UNCHANGED <<now, ticks, last, credentials, peer, basic, pager,
                   persnrs>>

\* thread t returns 'Bearer ' and the token stored at this moment
Return(t) ==
    /\ threads[t].pc = "return"
    /\ threads' = [threads EXCEPT
          ![t].pc = "idle",
          ![t].header = <<"Bearer ", Format(_access_token)>>]
    /\ UNCHANGED <<_access_token, _token_expires, now, ticks, last,
                   credentials, peer, basic, delivered, pager, persnrs>>

\* thread t, outside get_headers(), calls invalidate_token(), as the
\* client does when the API answers 401
Invalidate(t) ==
    /\ threads[t].pc = "idle"
    /\ LET r == invalidate_token(_access_token, _token_expires)
       IN  /\ _access_token' = r.tok
           /\ _token_expires' = r.exp
    /\ delivered' = None
    /\ UNCHANGED <<now, ticks, last, credentials, peer, basic, threads,
                   pager, persnrs>>

ThreadStep ==
    \E t \in Threads :
        \/ Call(t) \/ Check(t) \/ Post(t) \/ Receive(t) \/ Return(t)
        \/ Invalidate(t)

NextConcurrent == ThreadStep \/ Tick

SpecConcurrent == InitConcurrent /\ [][NextConcurrent]_vars

(* ------------------------ two client instances ------------------------ *)
\* The first client's handler is _access_token, _token_expires and
\* credentials; the second client's handler is the record peer.

\* OAuth2Handler.__init__, for the handler of the second client
OAuth2Handler(client_id, client_secret, token_url) ==
    [constructed |-> TRUE, client_id |-> client_id,
     client_secret |-> client_secret, token_url |-> token_url,
     _access_token |-> None, _token_expires |-> None]

\* the credentials a handler keeps
credentials_of(handler) ==
    Credentials(handler.client_id, handler.client_secret, handler.token_url)

\* what the token endpoint and the API answer in the two-client runs
TwoClientTokenResponses ==
    {r \in ClientTokenResponses :
        r.status_code = 200 => "expires_in" \notin DOMAIN r.json.v}
TwoClientApiResponses ==
    {r \in ApiResponses :
        \/ r.raises = RequestsConnectionError
        \/ r.raises = NoException /\ r.status_code \in {200, 401}
                                  /\ r.retry_after = None}

\* mutant of other_instance: the token and expiry are class attributes,
\* shared by all handlers
other_instance_shared(other, tok, exp) == [tok |-> tok, exp |-> exp]

\* what an assignment to self._access_token and self._token_expires does to
\* another handler: nothing
other_instance(other, tok, exp) == other

NoClientCall == [op |-> "none", self |-> "none", calls |-> 0,
                 posted |-> {}, api |-> NoApiResponse, error |-> "none"]

\* a second FinAutAPIClient has been constructed, with the same or with
\* other credentials
InitTwoClients ==
    /\ Init!1 /\ Init!2 /\ Init!3 /\ Init!4 /\ Init!6 /\ Init!8 /\ Init!9
    /\ Init!10 /\ Init!11 /\ Init!12
    /\ last = NoClientCall
    /\ \E id \in {"id1", "id2"} : peer = OAuth2Handler(id, "secret1", DefaultTokenUrl)

\* the token state of each client's handler
own_state == [tok |-> _access_token, exp |-> _token_expires]
peer_state == [tok |-> peer._access_token, exp |-> peer._token_expires]

\* the handlers after a call on the first client or on the second has left token state [tok, exp] in its own handler
Assigned(self, tok, exp) ==
    LET mine == [tok |-> tok, exp |-> exp]
        own == IF self = "client1" THEN mine
               ELSE other_instance(own_state, tok, exp)
        other == IF self = "client2" THEN mine
                 ELSE other_instance(peer_state, tok, exp)
    IN  /\ _access_token' = own.tok
        /\ _token_expires' = own.exp
        /\ peer' = [peer EXCEPT !._access_token = other.tok,
                                !._token_expires = other.exp]
        /\ UNCHANGED <<now, ticks, credentials, threads, basic, pager,
                       persnrs>>

\* a request through one of the two clients; posted: the credentials sent
\* to the token endpoint, if it was called
ClientRequested(self, mine, cred, tresp, aresp) ==
    LET r == request(mine.tok, mine.exp, now, FALSE, EmptyDict, tresp, aresp)
    IN  /\ Assigned(self, r.tok, r.exp)
        /\ last' = [op |-> "request", self |-> self, calls |-> r.auth.calls,
                    posted |-> IF r.auth.calls = 1 THEN {cred} ELSE {},
                    api |-> r.api, error |-> r.error.cls]
        /\ delivered' =
              IF self # "client1" THEN delivered
              ELSE IF r.error.cls = "AuthenticationError" /\ r.api # NoApiResponse
              THEN None
              ELSE delivered_after(delivered, r.auth.calls, r.auth.raised,
                                   r.auth.tok)

ClientRequest(self, mine, cred) ==
    \E tresp \in IF _needs_refresh(mine.tok, mine.exp, now)
                 THEN TwoClientTokenResponses ELSE {NoResponse} :
      \E aresp \in IF get_headers(mine.tok, mine.exp, now, tresp).raised = "none"
                   THEN TwoClientApiResponses ELSE {NoApiResponse} :
        ClientRequested(self, mine, cred, tresp, aresp)

\* client.auth.invalidate_token() on one of the two clients
ClientInvalidate(self, mine) ==
    LET r == invalidate_token(mine.tok, mine.exp)
    IN  /\ Assigned(self, r.tok, r.exp)
        /\ last' = [NoClientCall EXCEPT !.op = "invalidate_token",
                                        !.self = self]
        /\ delivered' = IF self = "client1" THEN None ELSE delivered

FirstClient ==
    \/ ClientRequest("client1", own_state, credentials)
    \/ ClientInvalidate("client1", own_state)

SecondClient ==
    \/ ClientRequest("client2", peer_state, credentials_of(peer))
    \/ ClientInvalidate("client2", peer_state)

NextTwoClients == FirstClient \/ SecondClient \/ Tick

SpecTwoClients == InitTwoClients /\ [][NextTwoClients]_vars

(* --------------------------- ResultResource ---------------------------- *)
\* get_user_results and get_recent_results: one step per turn of the
\* 'while True' loop, each turn one self.list() call through the client.

(* bound: the pages the model follows before it stops watching the loop *)
MaxPages == 3

\* FinAutAPIClient.base_url for the default host
BaseUrl == "https://api.norsktest.no/finautapi/v1/"

\* f"{self.client.base_url}user/{user_id}/", for an int user_id: a str,
\* kept in its parts
user_url(user_id) == Str(<<BaseUrl, "user/", user_id.v, "/">>)

\* the 'results' lists of a page
ResultLists ==
    { <<>>,
      <<[k \in {"id", "user"} |-> IF k = "id" THEN 1 ELSE user_url(Int_(7))]>>,
      <<[k \in {"id", "user"} |-> IF k = "id" THEN 2 ELSE user_url(Int_(8))],
        [k \in {"id"} |-> 3]>> }

\* the 'next' values of a page: null, empty, or the URL of the next page
NextValues == {None, Str(""), Str("next-page-url")}

\* JSON bodies of a page: 'results' and 'next' are each present or not
PageBodies ==
    { [k \in {"results", "next"} |-> IF k = "results" THEN rs ELSE nx] :
          rs \in ResultLists, nx \in NextValues }
    \cup { [k \in {"results"} |-> rs] : rs \in ResultLists }
    \cup { [k \in {"next"} |-> nx] : nx \in NextValues }
    \cup { EmptyDict }

\* dict.get(key, default)
dict_get(d, key, default) == IF key \in DOMAIN d THEN d[key] ELSE default

\* [r for r in results if r.get('user') == user_url]
RECURSIVE filter_user(_, _)
filter_user(results, url) ==
    IF results = <<>> THEN <<>>
    ELSE (IF dict_get(Head(results), "user", None) = url
          THEN <<Head(results)>> ELSE <<>>)
         \o filter_user(Tail(results), url)

\* mutant of any_identifier: the identifiers are not checked
any_identifier_unchecked(user_id, persnr, employee_alias) == TRUE

\* any([user_id, persnr, employee_alias])
any_identifier(user_id, persnr, employee_alias) ==
    Truthy(user_id) \/ Truthy(persnr) \/ Truthy(employee_alias)

\* ResultResource.list: the query parameters it sends
list_params(from_date, persnr, employee_alias, page) ==
    LET given == [from_date |-> from_date, persnr |-> persnr,
                  employee_alias |-> employee_alias, page |-> page]
    IN  [k \in {x \in DOMAIN given : Truthy(given[x])} |-> given[k]]

\* mutant of more_pages: an empty 'next' counts as a next page
more_pages_unless_absent(response) ==
    dict_get(response, "next", None) # None

\* 'not response.get('next')' is false: the loop goes on
more_pages(response) == Truthy(dict_get(response, "next", None))

\* the arguments of get_user_results
UserIds == {None, Int_(0), Int_(7)}
PersnrArguments == {None, Str("41018012345")}
AliasArguments == {None, Str("")}

\* a call that has passed its argument check and is about to ask for page 1
Paging(fn, user_id, persnr, employee_alias, from_date) ==
    [pc |-> "loop", fn |-> fn, user_id |-> user_id, persnr |-> persnr,
     employee_alias |-> employee_alias, from_date |-> from_date,
     page |-> 1, all_results |-> <<>>, sent |-> <<>>, pages |-> <<>>,
     net |-> <<>>, error |-> "none",
     before_tok |-> _access_token, before_exp |-> _token_expires]

\* get_user_results is called
CallGetUserResults ==
    /\ pager.pc = "idle"
    /\ \E user_id \in UserIds, persnr \in PersnrArguments,
          employee_alias \in AliasArguments :
         pager' = IF any_identifier(user_id, persnr, employee_alias)
                  THEN Paging("get_user_results", user_id, persnr,
                              employee_alias, None)
                  ELSE [Paging("get_user_results", user_id, persnr,
                               employee_alias, None)
                          EXCEPT !.pc = "raised", !.error = "ValueError"]
    /\ UNCHANGED <<_access_token, _token_expires, now, ticks, last,
                   credentials, peer, threads, basic, delivered, persnrs>>

\* get_recent_results is called, with the default 30 days: from_date is the
\* day 30 days (of 86400 seconds) before now
CallGetRecentResults ==
    /\ pager.pc = "idle"
    /\ pager' = Paging("get_recent_results", None, None, None,
                       [t |-> "date", v |-> (now - 30 * 86400) \div 86400])
    /\ UNCHANGED <<_access_token, _token_expires, now, ticks, last,
                   credentials, peer, threads, basic, delivered, persnrs>>

\* the API's answers to a page request: the page, or a server error
PageStatuses == {200, 500}

\* one turn of the loop, after the request r for the page was answered
\* with status 200 and body response, or raised r.error
Turned(r, params, response) ==
    LET sent == Append(pager.sent, params)
        net == pager.net \o r.net
        results == dict_get(response, "results", <<>>)
        kept == IF Truthy(pager.user_id)
                THEN filter_user(results, user_url(pager.user_id))
                ELSE results
        all_results == pager.all_results \o kept
    IN  /\ _access_token' = r.tok
        /\ _token_expires' = r.exp
        /\ delivered' = delivered_after(delivered, r.auth.calls,
                                        r.auth.raised, r.auth.tok)
        /\ pager' =
             IF r.error # NoError
             THEN [pager EXCEPT !.pc = "raised", !.error = r.error.cls,
                                !.sent = IF r.api = NoApiResponse THEN @ ELSE sent,
                                !.net = net]
             ELSE [pager EXCEPT
                     !.pc = IF more_pages(response) THEN "loop" ELSE "returned",
                     !.page = IF more_pages(response) THEN @ + 1 ELSE @,
                     !.all_results = all_results,
                     !.sent = sent, !.pages = Append(@, response),
                     !.net = net]
        /\ UNCHANGED <<now, ticks, last, credentials, peer, threads, basic,
                       persnrs>>

\* one turn of the loop: self.list(..., page=page) and what follows it
FetchPage ==
    /\ pager.pc = "loop"
    /\ pager.page <= MaxPages
    /\ \E tresp \in IF _needs_refresh(_access_token, _token_expires, now)
                    THEN TwoClientTokenResponses ELSE {NoResponse} :
         \E status \in PageStatuses : \E response \in PageBodies :
           /\ status # 200 => response = EmptyDict
           /\ Turned(request(_access_token, _token_expires, now, FALSE,
                             EmptyDict, tresp,
                             [raises |-> NoException, status_code |-> status,
                              retry_after |-> None]),
                     list_params(pager.from_date, pager.persnr,
                                 pager.employee_alias, Int_(pager.page)),
                     response)

NextResults == CallGetUserResults \/ CallGetRecentResults \/ FetchPage

SpecResults == Init /\ [][NextResults]_vars

(* --------------------------- test_connection --------------------------- *)

\* the token endpoint's answers while the connection is tested: those of
\* ClientTokenResponses, no answer at all, and a body that is not an object
ConnectionTokenResponses ==
    ClientTokenResponses
    \cup {r \in Responses : r.post_raises = ConnectTimeout}
    \cup {r \in Responses : r.post_raises = NoException /\ r.status_code = 200
                            /\ r.json_raises = NoException /\ r.json = List}

\* what response.json() raises on the API's answer: nothing, or the
\* decoding error of a body that is not JSON
BodyOutcomes == {NoException, RequestsJSONDecodeError}

\* FinAutAPIClient.get: request, then response.json(); the class of the
\* exception that leaves it, "none" when it returns the body
client_get(r, body_raises) ==
    IF r.error # NoError THEN r.error.cls
    ELSE IF body_raises # NoException THEN "JSONDecodeError"
    ELSE "none"

\* the exception classes of finautapi_client.exceptions
FinAutAPIExceptions ==
    {"FinAutAPIException", "AuthenticationError", "ValidationError",
     "NotFoundError", "PermissionDeniedError", "ServerError",
     "RateLimitError"}

\* mutant of except_Exception: only the client's own exceptions are caught
except_FinAutAPIException(cls) == cls \in FinAutAPIExceptions

\* 'except Exception': every exception class of the model derives from
\* Exception
except_Exception(cls) == TRUE

\* FinAutAPIClient.test_connection, given what self.get("") raised
test_connection(get_raised) ==
    IF get_raised = "none" THEN [returned |-> "True", raised |-> "none"]
    ELSE IF except_Exception(get_raised)
    THEN [returned |-> "False", raised |-> "none"]
    ELSE [returned |-> "none", raised |-> get_raised]

\* the effect of test_connection() whose request gave r
ConnectionTested(r, tresp, body_raises) ==
    /\ _access_token' = r.tok
    /\ _token_expires' = r.exp
    /\ delivered' = IF r.error.cls = "AuthenticationError" /\ r.api # NoApiResponse
                    THEN None
                    ELSE delivered_after(delivered, r.auth.calls,
                                         r.auth.raised, r.auth.tok)
    /\ last' = [op |-> "test_connection", resp |-> tresp,
                calls |-> r.auth.calls, auth_raised |-> r.auth.raised,
                net |-> r.net, api |-> r.api, body_raises |-> body_raises,
                get_raised |-> client_get(r, body_raises),
                returned |-> test_connection(client_get(r, body_raises)).returned,
                raised |-> test_connection(client_get(r, body_raises)).raised]
    /\ UNCHANGED <<now, ticks>>
    /\ UNCHANGED other_objects

\* a caller invokes test_connection()
TestConnection ==
    \E tresp \in IF _needs_refresh(_access_token, _token_expires, now)
                 THEN ConnectionTokenResponses ELSE {NoResponse} :
      \E aresp \in IF get_headers(_access_token, _token_expires, now, tresp).raised = "none"
                   THEN ApiResponses ELSE {NoApiResponse} :
        \E body_raises \in IF aresp # NoApiResponse /\ aresp.raises = NoException
                              /\ aresp.status_code < 400
                           THEN BodyOutcomes ELSE {NoException} :
          ConnectionTested(request(_access_token, _token_expires, now, FALSE,
                                   EmptyDict, tresp, aresp),
                           tresp, body_raises)

NextConnection == TestConnection \/ InvalidateToken \/ Tick

SpecConnection == Init /\ [][NextConnection]_vars

(* ------------------------- generate_test_persnrs ------------------------ *)
(* persnr.py.  A number is the sequence of its decimal digits; a string of  *)
(* digits is Str of such a sequence.  datetime.date.today() is the input.   *)

\* days covered from each first day of Todays
MaxDays == 20

\* proleptic Gregorian ordinals of the days date.today() is drawn from:
\* 2051-10-26.., 2029-02-13.. and 2029-12-14.. (the days 25 * 365 days before
\* them run over a plain month, a leap day and the end of a leap year)
Todays ==
    UNION {{first + k : k \in 0 .. MaxDays} : first \in {749046, 740756, 741060}}

VEKT1 == <<3, 7, 6, 1, 8, 9, 4, 5, 2, 1, 0>>

VEKT2 == <<5, 4, 3, 2, 7, 6, 5, 4, 3, 2, 1>>

\* seq[:n]
prefix(seq, n) == SubSeq(seq, 1, IF n < Len(seq) THEN n ELSE Len(seq))

\* seq[-n:]
suffix(seq, n) == SubSeq(seq, IF Len(seq) > n THEN Len(seq) - n + 1 ELSE 1, Len(seq))

RECURSIVE multiply_reduce(_, _)
\* sum(a * b for a, b in zip(avec, bvec)); zip stops at the shorter one
multiply_reduce(avec, bvec) ==
    IF avec = <<>> \/ bvec = <<>> THEN 0
    ELSE Head(avec) * Head(bvec) + multiply_reduce(Tail(avec), Tail(bvec))

RECURSIVE str(_)
\* str(n) of a natural number: its decimal digits, no padding
str(n) == IF n < 10 THEN <<n>> ELSE str(n \div 10) \o <<n % 10>>

RECURSIVE zero_pad(_, _)
\* f'{n:0w}': str(n) left-padded with zeros to at least w characters
zero_pad(digits, width) ==
    IF Len(digits) >= width THEN digits ELSE zero_pad(<<0>> \o digits, width)

\* a control value the code rejects: val >= 10
no_control_digit(val) == val >= 10

\* calc_parity(ppnr): the nine digits with both control digits appended,
\* or None when either control value is 10 or 11
calc_parity(ppnr) ==
    LET val1 == 11 - (multiply_reduce(prefix(ppnr, 9), prefix(VEKT1, 9)) % 11)
        ppnr10 == ppnr \o str(val1)
        val2 == 11 - (multiply_reduce(ppnr10, prefix(VEKT2, 10)) % 11)
    IN  IF no_control_digit(val1) THEN None
        ELSE IF no_control_digit(val2) THEN None
        ELSE Str(ppnr10 \o str(val2))

\* is_valid(pnr)
is_valid(pnr) ==
    /\ multiply_reduce(pnr, VEKT1) % 11 = 0
    /\ multiply_reduce(pnr, VEKT2) % 11 = 0

\* year is a leap year
is_leap(year) == year % 4 = 0 /\ (year % 100 # 0 \/ year % 400 = 0)

\* days in the month of that year
days_in_month(year, month) ==
    IF month = 2 THEN (IF is_leap(year) THEN 29 ELSE 28)
    ELSE IF month \in {4, 6, 9, 11} THEN 30 ELSE 31

RECURSIVE month_and_day(_, _, _)
\* the month and day of month of the n-th day (from 0) counted from the
\* first of the given month
month_and_day(year, month, n) ==
    IF n < days_in_month(year, month) THEN [month |-> month, day |-> n + 1]
    ELSE month_and_day(year, month + 1, n - days_in_month(year, month))

\* datetime.date.fromordinal(ordinal): day 1 is 0001-01-01; 400 years have
\* 146097 days, 100 years 36524, 4 years 1461, a year 365
fromordinal(ordinal) ==
    LET n0 == ordinal - 1
        n400 == n0 \div 146097
        r400 == n0 % 146097
        n100 == r400 \div 36524
        r100 == r400 % 36524
        n4 == r100 \div 1461
        r4 == r100 % 1461
        n1 == r4 \div 365
        n == r4 % 365
        year == n400 * 400 + 1 + n100 * 100 + n4 * 4 + n1
    IN  IF n1 = 4 \/ n100 = 4
        THEN [year |-> year - 1, month |-> 12, day |-> 31]
        ELSE [year |-> year] @@ month_and_day(year, 1, n)

\* the day 25 * 365 days before today
day_of(today) == fromordinal(today - 25 * 365)

\* the date written without the 40 added to the day of month
datepart_of_plain_day(day) ==
    zero_pad(str(day.day), 2) \o zero_pad(str(day.month), 2)
        \o zero_pad(str(day.year % 100), 2)

\* datepart: day of month plus 40, month, year in the century, two digits each
datepart_of(day) ==
    zero_pad(str(day.day + 40), 2) \o zero_pad(str(day.month), 2)
        \o zero_pad(str(day.year % 100), 2)

\* one turn of the loop: the list result grows by
appended(datepart, inr) ==
    LET pnr == calc_parity(datepart \o zero_pad(str(inr), 3))
    IN  IF pnr # None /\ is_valid(pnr.v) THEN <<pnr>> ELSE <<>>

RECURSIVE generated(_, _, _)
\* the loop over range(0, 1000, 2), turns from_turn .. to_turn (from 0): the
\* valid numbers in the order of the loop
generated(datepart, from_turn, to_turn) ==
    IF from_turn > to_turn THEN <<>>
    ELSE IF from_turn = to_turn THEN appended(datepart, 2 * from_turn)
    ELSE LET middle == (from_turn + to_turn) \div 2
         IN  generated(datepart, from_turn, middle)
                 \o generated(datepart, middle + 1, to_turn)

\* generate_test_persnrs() on the given day
generate_test_persnrs(today) ==
    suffix(generated(datepart_of(day_of(today)), 0, (1000 \div 2) - 1), 40)

\* the state before the call, on each day
InitPersnr ==
    /\ Init!1 /\ Init!2 /\ Init!3 /\ Init!4 /\ Init!5 /\ Init!6
    /\ Init!7 /\ Init!8 /\ Init!9 /\ Init!10 /\ Init!11
    /\ persnrs \in {[called |-> FALSE, today |-> d] : d \in Todays}

\* a call of generate_test_persnrs
GeneratePersnrs ==
    /\ persnrs' = [called |-> TRUE, today |-> persnrs.today,
                   result |-> generate_test_persnrs(persnrs.today)]
    /\ UNCHANGED <<_access_token, _token_expires, now, ticks, last,
                   credentials, peer, threads, basic, delivered, pager>>

NextPersnr == GeneratePersnrs

SpecPersnr == InitPersnr /\ [][NextPersnr]_vars

(* ------------------------------ claims --------------------------------- *)
\* the most recent call was get_headers and it called the token endpoint
Refreshed == last.op = "get_headers" /\ last.calls = 1

\* the token state is what the most recent call found
StateAsBefore ==
    /\ _access_token = last.before_tok
    /\ _token_expires = last.before_exp

\* the token endpoint answered: no transport failure
Answered(resp) == resp.post_raises = NoException

\* a token string issued by the endpoint
IsToken(x) == x.t = "str" /\ x.v \in TokenStrings

\* C1: when get_headers needs a refresh and the token endpoint answers with
\* an error status or the call fails at transport level, the call fails with
\* AuthenticationError "Failed to obtain access token" and the token and
\* its expiry are what they were before the call.
C1_FailedRefreshKeepsState ==
    (Refreshed /\ (~Answered(last.resp) \/ last.resp.status_code >= 400)) =>
        (last.raised = FailedToObtain /\ StateAsBefore)

\* C1 witness: the endpoint answered 401 to the refresh of a stored stale
\* token, which is still stored.
C1_Witness ==
    /\ Refreshed
    /\ Answered(last.resp) /\ last.resp.status_code = 401
    /\ last.raised = FailedToObtain
    /\ last.before_tok = Str("tok1") /\ _access_token = Str("tok1")
    /\ _token_expires.t = "datetime"

\* the body of a success answer is not parseable or has no access_token
BodyLacksToken(resp) ==
    \/ resp.json_raises # NoException
    \/ resp.json.t # "dict"
    \/ "access_token" \notin DOMAIN resp.json.v

\* C2: when the token endpoint answers success with a body that is not
\* parseable or lacks access_token, get_headers fails with
\* AuthenticationError "Invalid token response" and the token state is not
\* changed.
C2_BadBodyIsInvalidResponse ==
    (Refreshed /\ Answered(last.resp) /\ last.resp.status_code = 200
        /\ BodyLacksToken(last.resp)) =>
        (last.raised = InvalidResponse /\ StateAsBefore)

\* C3: the token is absent exactly when its expiry is absent.
C3_TokenAndExpiryTogether ==
    (_access_token = None) <=> (_token_expires = None)

\* C4: a call of get_headers that returns, returns a token that is not
\* expired at the time of the return.
C4_NeverReturnsExpired ==
    (last.op = "get_headers" /\ last.raised = "none") =>
        (_token_expires.t = "datetime" /\ last.at < _token_expires.v)

\* C5: get_headers calls the token endpoint not at all when a token is
\* stored whose expiry is more than 60 seconds away, and returns the header
\* built from the stored token.
C5_NoCallWhileValid ==
    (/\ last.op = "get_headers"
     /\ IsToken(last.before_tok)
     /\ last.before_exp.t = "datetime"
     /\ last.before_exp.v - last.at > 60) =>
        /\ last.calls = 0
        /\ last.raised = "none"
        /\ last.headers = <<"Bearer ", last.before_tok.v>>

\* C5 witness: a token stored by an earlier call is returned, some time
\* later, without a call of the token endpoint.
C5_Witness ==
    /\ last.op = "get_headers" /\ last.after = "get_headers"
    /\ last.at > 0
    /\ IsToken(last.before_tok)
    /\ last.before_exp.t = "datetime" /\ last.before_exp.v - last.at > 60
    /\ last.calls = 0
    /\ last.headers = <<"Bearer ", last.before_tok.v>>

\* C6: get_headers calls the token endpoint whenever the token is absent or
\* now >= expires_at - 60s, the boundary instant included, and when that
\* refresh succeeds the call returns the token just issued.
C6_RefreshWhenAbsentOrStale ==
    (/\ last.op = "get_headers"
     /\ \/ last.before_tok = None
        \/ last.before_exp = None
        \/ last.at >= last.before_exp.v - 60) =>
        /\ last.calls = 1
        /\ last.raised = "none" =>
              /\ _access_token = last.resp.json.v["access_token"]
              /\ last.headers =
                    <<"Bearer ", Format(last.resp.json.v["access_token"])>>

\* C6 witness: a token issued for 3600 seconds is replaced by a call made
\* exactly 60 seconds before its expiry, which returns the new token.
C6_Witness ==
    /\ last.op = "get_headers"
    /\ last.before_tok = Str("tok1")
    /\ last.before_exp = DateTime(3600)
    /\ last.at = 3600 - 60
    /\ last.calls = 1 /\ last.raised = "none"
    /\ last.headers = <<"Bearer ", "tok2">>

\* C7: the call of get_headers that follows invalidate_token calls the
\* token endpoint exactly once.
C7_RefreshAfterInvalidate ==
    (last.op = "get_headers" /\ last.after = "invalidate_token") =>
        last.calls = 1

\* C7 witness: get_headers after invalidate_token fetched a token.
C7_Witness ==
    /\ last.op = "get_headers" /\ last.after = "invalidate_token"
    /\ last.calls = 1 /\ last.raised = "none"
    /\ IsToken(_access_token)

\* C8: after a successful refresh at time t answered with access_token k
\* and expires_in d, the state is token k and expiry t + d; without
\* expires_in the expiry is t + 3600.
C8_RefreshStoresTokenAndExpiry ==
    (Refreshed /\ last.raised = "none") =>
        LET body == last.resp.json.v
            d == IF "expires_in" \in DOMAIN body THEN body["expires_in"].v ELSE 3600
        IN  /\ _access_token = body["access_token"]
            /\ _token_expires = DateTime(last.at + d)

\* C8 witness: an answer without expires_in, some time after the start.
C8_Witness ==
    /\ Refreshed /\ last.raised = "none"
    /\ last.at > 0
    /\ "expires_in" \notin DOMAIN last.resp.json.v
    /\ _access_token = Str("tok1")
    /\ _token_expires = DateTime(last.at + 3600)

\* C9: when a call of get_headers obtained a token and the next call is
\* another get_headers made before that token's expires_at - 60s, the two
\* calls return the same header and call the token endpoint once in total.
C9_ReuseWithinWindow ==
    [][(/\ Refreshed /\ last.raised = "none"
        /\ IsToken(_access_token)
        /\ now < _token_expires.v - 60
        /\ last'.op = "get_headers" /\ now' = now) =>
            /\ last'.headers = last.headers
            /\ last.calls + last'.calls = 1]_vars

\* C9 witness: a second get_headers in a row, some time after the first,
\* returned a header without calling the token endpoint.
C9_Witness ==
    /\ last.op = "get_headers" /\ last.after = "get_headers"
    /\ last.calls = 0 /\ last.raised = "none"
    /\ last.at > 0
    /\ last.headers = <<"Bearer ", "tok2">>
    /\ _token_expires = DateTime(3600)

\* C10: invalidate_token leaves token and expiry absent from every state,
\* calls no endpoint, does not fail, leaves the same state when called a
\* second time, and _needs_refresh is true after it.
C10_InvalidateClears ==
    (last.op = "invalidate_token") =>
        /\ _access_token = None /\ _token_expires = None
        /\ last.calls = 0 /\ last.raised = "none"
        /\ _needs_refresh(_access_token, _token_expires, now)
        /\ last.after = "invalidate_token" => StateAsBefore

\* C10 witness: invalidate_token cleared a stored token.
C10_Witness ==
    /\ last.op = "invalidate_token"
    /\ last.before_tok = Str("tok1") /\ last.before_exp.t = "datetime"
    /\ _access_token = None /\ _token_expires = None

\* the logical state VALID: a token is held and no refresh is required
\* before its use; every other state is NO_TOKEN
Valid ==
    /\ Truthy(_access_token) /\ Truthy(_token_expires)
    /\ now < _token_expires.v - 60

\* C11: the manager starts in NO_TOKEN; it goes from NO_TOKEN to VALID only
\* by a get_headers whose refresh succeeded (so a failed refresh leaves
\* NO_TOKEN), and from VALID to NO_TOKEN only by the passing of time or by
\* invalidate_token.
C11_OnlyListedTransitions ==
    /\ ~Valid
    /\ [][/\ (~Valid /\ Valid') =>
                (now' = now /\ last'.op = "get_headers"
                    /\ last'.calls = 1 /\ last'.raised = "none")
          /\ (Valid /\ ~Valid') =>
                (now' > now \/ last'.op = "invalidate_token")]_vars

ApiAnswered ==
    /\ last.op = "request"
    /\ last.api.raises = NoException

\* the number of API calls in a sequence of network calls
ApiCalls(net) == Cardinality({i \in DOMAIN net : net[i] = "api"})

\* C13: when the API answers a request with 401 the token state is empty
\* afterwards, the request raises AuthenticationError after at most one
\* retry, and the next request through the client calls the token endpoint
\* before it calls the API.
C13_InvalidateOn401 ==
    /\ []((ApiAnswered /\ last.api.status_code = 401) =>
            /\ _access_token = None /\ _token_expires = None
            /\ last.error.cls = "AuthenticationError"
            /\ ApiCalls(last.net) <= 2)
    /\ [][(/\ ApiAnswered /\ last.api.status_code = 401
           /\ last'.op = "request" /\ now' = now) =>
            /\ last'.calls = 1
            /\ Head(last'.net) = "token"
            /\ ApiCalls(last'.net) > 0 => last'.raised = "none"]_vars

\* C13 witness: a stored, valid token was sent, the API answered 401, and
\* the token is gone.
C13_Witness ==
    /\ ApiAnswered /\ last.api.status_code = 401
    /\ last.calls = 0 /\ last.before_tok = Str("tok1")
    /\ _access_token = None /\ _token_expires = None

\* the most recent call was a request that called the API
ApiCalled == last.op = "request" /\ ApiCalls(last.net) > 0

\* a request that starts with no token calls the token endpoint first, and
\* the API second if at all
TokenCallFirst ==
    (last.op = "request" /\ last.before_tok = None /\ last.before_exp = None) =>
        /\ last.net \in {<<"token">>, <<"token", "api">>}
        /\ last.raised = "none" => last.net = <<"token", "api">>

\* C14, as claimed: every API request follows a successful get_headers and
\* carries Authorization 'Bearer <token held>', and the first request of a
\* client makes two network calls, the token endpoint's first.
C14_AlwaysBearerOfHeldToken ==
    /\ ApiCalled =>
        /\ last.raised = "none"
        /\ last.sent["Authorization"] = <<"Bearer ", Format(last.auth_tok)>>
    /\ TokenCallFirst

\* C14, amended: every API request follows a successful get_headers and
\* carries Authorization 'Bearer <token held>' unless the caller's headers
\* argument has an Authorization entry, which is then sent instead; the
\* first request of a client makes two network calls, the token endpoint's
\* first.
C14_BearerUnlessOverridden ==
    /\ ApiCalled =>
        /\ last.raised = "none"
        /\ last.sent["Authorization"] =
              IF "Authorization" \in DOMAIN last.args.headers
              THEN last.args.headers["Authorization"]
              ELSE <<"Bearer ", Format(last.auth_tok)>>
    /\ TokenCallFirst

\* C14 witness: the first request of a client fetched a token and sent it
\* to the API; another one sent the caller's own Authorization header.
C14_Witness ==
    /\ ApiCalled /\ last.at = 0
    /\ last.before_tok = None
    /\ last.net = <<"token", "api">>
    /\ last.sent["Authorization"] = <<"Bearer ", "tok1">>
    /\ last.auth_tok = Str("tok1")

\* the outcome the claim gives for a status code
ClaimedOutcome(code) ==
    CASE code < 400 -> "none"
      [] code = 401 -> "AuthenticationError"
      [] code = 403 -> "PermissionDeniedError"
      [] code = 404 -> "NotFoundError"
      [] code = 422 -> "ValidationError"
      [] code = 429 -> "RateLimitError"
      [] code >= 500 -> "ServerError"
      [] OTHER -> "FinAutAPIException"

\* C15: an API answer below 400 is returned; 401, 403, 404, 422, 429, 5xx
\* and other 4xx answers raise the exception class named for them, and the
\* RateLimitError carries the Retry-After header.
C15_StatusMapping ==
    ApiAnswered =>
        /\ last.error.cls = ClaimedOutcome(last.api.status_code)
        /\ last.api.status_code = 429 =>
              last.error.retry_after = last.api.retry_after

\* C15 witness: a 429 answer with Retry-After: 60.
C15_Witness ==
    /\ ApiAnswered /\ last.api.status_code = 429
    /\ last.api.retry_after = Str("60")
    /\ last.error.cls = "RateLimitError"
    /\ last.error.retry_after = Str("60")

\* C16: when the token endpoint answers 401 during a request, the request
\* raises AuthenticationError 'Failed to obtain access token', the API is
\* not called, and the token state is what it was: empty stays empty.
C16_AuthFailureStopsRequest ==
    (last.op = "request" /\ last.calls = 1 /\ last.resp.status_code = 401) =>
        /\ last.error.cls = "AuthenticationError"
        /\ last.error.message = "Failed to obtain access token"
        /\ last.net = <<"token">>
        /\ last.api = NoApiResponse
        /\ StateAsBefore

\* C16 witness: the first request of a client, rejected by the token
\* endpoint.
C16_Witness ==
    /\ last.op = "request" /\ last.calls = 1 /\ last.resp.status_code = 401
    /\ last.before_tok = None /\ last.before_exp = None
    /\ _access_token = None /\ _token_expires = None
    /\ last.error.cls = "AuthenticationError"
    /\ last.net = <<"token">>

\* base64 decoding of a padded encoding: the bytes it stands for
b64_index(c) == CHOOSE v \in 0..63 : B64Alphabet[v + 1] = c

RECURSIVE b64decode(_)
b64decode(chars) ==
    IF chars = <<>> THEN <<>>
    ELSE LET pad3 == chars[3] = "="
             pad4 == chars[4] = "="
             n == b64_index(chars[1]) * 262144 + b64_index(chars[2]) * 4096
                  + (IF pad3 THEN 0 ELSE b64_index(chars[3]) * 64)
                  + (IF pad4 THEN 0 ELSE b64_index(chars[4]))
         IN  <<n \div 65536>>
             \o (IF pad3 THEN <<>> ELSE <<(n \div 256) % 256>>)
             \o (IF pad4 THEN <<>> ELSE <<n % 256>>)
             \o b64decode(SubSeq(chars, 5, Len(chars)))

\* the bytes of username + ':' + password
CredentialBytes == utf8_encode(basic.username \o <<58>> \o basic.password)

\* C17: BasicAuthHandler.get_headers makes no network call, leaves the
\* handler as it is and returns Authorization: 'Basic ' followed by the
\* padded base64 encoding of username + ':' + password; for test_user and
\* test_pass that is 'Basic dGVzdF91c2VyOnRlc3RfcGFzcw=='; repeated calls
\* return the same value.
C17_BasicHeader ==
    /\ [](basic.constructed =>
            \A i \in DOMAIN basic.returned :
              LET r == basic.returned[i]
              IN  /\ r.net = <<>>
                  /\ DOMAIN r.headers = {"Authorization"}
                  /\ r.headers["Authorization"] = <<"Basic ", decode(r.encoded)>>
                  /\ Len(r.encoded) = 4 * ((Len(CredentialBytes) + 2) \div 3)
                  /\ b64decode(r.encoded) = CredentialBytes
                  /\ r = basic.returned[1]
                  /\ (basic.username = test_user /\ basic.password = test_pass) =>
                        r.headers["Authorization"] =
                            <<"Basic ", "dGVzdF91c2VyOnRlc3RfcGFzcw==">>)
    /\ [][basic.constructed =>
            /\ basic'.username = basic.username
            /\ basic'.password = basic.password]_vars

\* C17 witness: the handler of test_user and test_pass has returned its
\* header twice.
C17_Witness ==
    /\ basic.constructed
    /\ basic.username = test_user /\ basic.password = test_pass
    /\ Len(basic.returned) = 2
    /\ basic.returned[2].headers["Authorization"][2] = "dGVzdF91c2VyOnRlc3RfcGFzcw=="

\* thread t sends its POST in this step
Posts(t) == threads[t].pc = "refresh" /\ threads'[t].pc = "wait"

\* the stored token is absent or inside the refresh buffer
Stale == _needs_refresh(_access_token, _token_expires, now)

\* C18: every call of get_headers goes on to refresh exactly when its check
\* finds the stored token absent or stale, and a call that overlaps no other
\* call sends its POST while that is still so; nothing keeps a second thread from passing the check while
\* the first is refreshing, so two POSTs for one stale token can be in
\* flight together.
C18_OneRefreshWhenAlone ==
    [][\A t \in Threads :
         /\ (threads[t].pc = "check" /\ threads'[t].pc # "check") =>
               threads'[t].pc = (IF Stale THEN "refresh" ELSE "return")
         /\ (Posts(t) /\ threads[t].alone) => Stale]_vars

\* C18 witness: both threads found no token at the same moment and both
\* have a POST to the token endpoint in flight.
C18_Witness ==
    /\ threads # NoThreads
    /\ \A t \in Threads : threads[t].pc = "wait"
    /\ now = 0
    /\ _access_token = None

\* the passage of time changes neither the stored token nor its expiry, and
\* makes no call
TimeAloneChangesNothing ==
    [][now' # now =>
         /\ _access_token' = _access_token
         /\ _token_expires' = _token_expires
         /\ last' = last]_vars

\* a stored token that has passed its expiry less the buffer is replaced or
\* removed only by a successful refresh or by invalidate_token
StaleTokenStaysStored ==
    [][(/\ _access_token # None /\ _token_expires.t = "datetime"
        /\ now >= _token_expires.v - RefreshBuffer
        /\ <<_access_token, _token_expires>>' # <<_access_token, _token_expires>>) =>
         \/ last'.op = "invalidate_token"
         \/ last'.op = "get_headers" /\ last'.calls = 1 /\ last'.raised = "none"]_vars

\* each access decides staleness from the time of the access and the stored
\* token and expiry alone
StalenessDecidedAtAccess ==
    [](last.op = "get_headers" =>
         (last.calls = 1 <=>
            \/ ~Truthy(last.before_tok)
            \/ ~Truthy(last.before_exp)
            \/ last.at >= last.before_exp.v - RefreshBuffer))

\* C19: expiry is lazy: time alone never changes the stored token or expiry
\* and never causes a token-endpoint call; a stored token past its expiry
\* less 60 seconds stays stored until the next successful refresh or
\* invalidate; staleness is decided at each access from the current time and
\* the stored expiry less the buffer.
C19_LazyExpiry ==
    /\ TimeAloneChangesNothing
    /\ StaleTokenStaysStored
    /\ StalenessDecidedAtAccess

\* C20: a call on one client leaves the token, the expiry and the
\* credentials of the other client's handler as they were; no call changes
\* the client_id, client_secret or token_url of either handler; a refresh
\* posts the credentials of the handler it belongs to.
C20_InstancesAreSeparate ==
    /\ [][(now' = now /\ last'.self = "client1") => peer' = peer]_vars
    /\ [][(now' = now /\ last'.self = "client2") =>
             /\ _access_token' = _access_token
             /\ _token_expires' = _token_expires
             /\ credentials' = credentials]_vars
    /\ [][/\ credentials' = credentials
          /\ credentials_of(peer') = credentials_of(peer)]_vars
    /\ [](last.posted \subseteq {IF last.self = "client1" THEN credentials
                                 ELSE credentials_of(peer)})

\* C20 witness: the first client holds a token; the second client, with
\* other credentials, fetched one too, was answered 401 by the API and has
\* lost it.
C20_Witness ==
    /\ peer.constructed
    /\ credentials_of(peer) # credentials
    /\ _access_token = Str("tok1") /\ _token_expires = DateTime(DefaultExpiresIn)
    /\ last.self = "client2" /\ last.op = "request"
    /\ last.calls = 1 /\ last.posted = {credentials_of(peer)}
    /\ last.api.raises = NoException /\ last.api.status_code = 401
    /\ peer._access_token = None /\ peer._token_expires = None

\* C21: every exception raised for an API answer of status 400 or above
\* carries that status in its status_code attribute.
C21_StatusCodeCarried ==
    (ApiAnswered /\ last.api.status_code >= 400) =>
        last.error.status_code = Int_(last.api.status_code)

\* C22: a header returned by get_headers carries the token delivered by the
\* most recent successful refresh, never an earlier one and never one that
\* invalidate_token has cleared since.
C22_HeaderOfLatestRefresh ==
    (last.op = "get_headers" /\ last.raised = "none") =>
        last.headers = <<"Bearer ", Format(delivered)>>

\* C23: whenever get_headers returns, the Authorization value is 'Bearer '
\* followed by a present, non-empty token string, never 'Bearer None'.
C23_HeaderHasToken ==
    (last.op = "get_headers" /\ last.raised = "none") =>
        /\ _access_token.t = "str" /\ _access_token.v # ""
        /\ last.headers = <<"Bearer ", _access_token.v>>

\* C24: an API answer of any status but 401, and an API call that fails in
\* transport (timeout or connection error, raised as FinAutAPIException),
\* leave the token and the expiry as get_headers left them in that request.
C24_OnlyUnauthorizedClears ==
    (last.op = "request" /\ last.api # NoApiResponse
       /\ ~(last.api.raises = NoException /\ last.api.status_code = 401)) =>
        /\ _access_token = last.auth_tok
        /\ _token_expires = last.auth_exp
        /\ (last.api.raises \in {ReadTimeout, RequestsConnectionError}) =>
              last.error.cls = "FinAutAPIException"

\* C24 witness: a request sent with a stored token was answered 403 and the
\* token is still stored.
C24_Witness ==
    /\ ApiAnswered /\ last.api.status_code = 403
    /\ last.calls = 0 /\ last.auth_tok = Str("tok1")
    /\ _access_token = Str("tok1") /\ _token_expires = last.before_exp

\* C25: a call of get_headers during which another thread runs
\* invalidate_token never returns a header built from an absent token.
C25_NoAbsentTokenUnderInvalidate ==
    \A t \in DOMAIN threads :
        threads[t].header # <<"Bearer ", Format(None)>>

\* a refresh that fails leaves the handler in need of a refresh, so that
\* the next call tries again
FailedRefreshRetried ==
    [](((last.op = "get_headers" /\ last.calls = 1 /\ last.raised # "none")
          \/ last.op = "invalidate_token") => Stale)

\* whenever the token is absent or stale it later is present and fresh
EventuallyValid == ~Valid ~> Valid

\* C26: after any refresh failures and invalidations the next get_headers
\* attempts a refresh again, and if the caller keeps calling and the token
\* endpoint eventually answers with a well-formed success, the state
\* eventually becomes VALID.
C26_NeverWedged == FailedRefreshRetried /\ EventuallyValid

\* a page whose 'next' is absent, null or empty
NoNext(body) ==
    \/ "next" \notin DOMAIN body
    \/ body["next"] = None
    \/ body["next"] = Str("")

\* the entries of a page that the call returns: all of them, or with a
\* user_id those whose 'user' is the URL of that user
Wanted(body, user_id) ==
    LET results == IF "results" \in DOMAIN body THEN body["results"] ELSE <<>>
    IN  IF user_id = None \/ user_id = Int_(0) THEN results
        ELSE SelectSeq(results,
               LAMBDA e : "user" \in DOMAIN e /\ e["user"] = user_url(user_id))

\* the concatenation, in page order, of what is wanted of each page
RECURSIVE Concatenation(_, _)
Concatenation(pages, user_id) ==
    IF pages = <<>> THEN <<>>
    ELSE Wanted(Head(pages), user_id) \o Concatenation(Tail(pages), user_id)

\* C27: get_user_results and get_recent_results request pages 1, 2, 3, ...
\* in order, one API request per page; they go on while the page fetched
\* has a 'next' and return at the first page that has none; what they have
\* collected, and return, is the concatenation in page order of the
\* 'results' of the pages fetched, filtered by user URL when a user_id is
\* given.
C27_Pagination ==
    (pager.pc \in {"loop", "returned"}) =>
        /\ Len(pager.sent) = Len(pager.pages)
        /\ ApiCalls(pager.net) = Len(pager.pages)
        /\ \A i \in DOMAIN pager.sent : pager.sent[i]["page"] = Int_(i)
        /\ \A i \in DOMAIN pager.pages :
              i < Len(pager.pages) => ~NoNext(pager.pages[i])
        /\ pager.pc = "loop" =>
              /\ pager.page = Len(pager.pages) + 1
              /\ \A i \in DOMAIN pager.pages : ~NoNext(pager.pages[i])
        /\ pager.pc = "returned" =>
              /\ pager.pages # <<>>
              /\ NoNext(pager.pages[Len(pager.pages)])
        /\ pager.all_results = Concatenation(pager.pages, pager.user_id)

\* C27 witness: get_user_results for user 7 has returned after more than
\* one page, keeping some entries and dropping others.
C27_Witness ==
    /\ pager.pc = "returned" /\ pager.fn = "get_user_results"
    /\ pager.user_id = Int_(7)
    /\ Len(pager.pages) > 1
    /\ pager.all_results # <<>>
    /\ \E i \in DOMAIN pager.pages :
          /\ "results" \in DOMAIN pager.pages[i]
          /\ Len(pager.pages[i]["results"]) > 1

\* C28: get_user_results called with none of user_id, persnr and
\* employee_alias raises ValueError before any network call and leaves the
\* token and its expiry as they were.
C28_NoIdentifierNoCall ==
    (/\ pager.pc # "idle" /\ pager.fn = "get_user_results"
     /\ pager.user_id = None /\ pager.persnr = None
     /\ pager.employee_alias = None) =>
        /\ pager.pc = "raised" /\ pager.error = "ValueError"
        /\ pager.net = <<>> /\ pager.sent = <<>>
        /\ _access_token = pager.before_tok
        /\ _token_expires = pager.before_exp

\* C28 witness: the call without identifiers has raised.
C28_Witness ==
    /\ pager.pc = "raised" /\ pager.fn = "get_user_results"
    /\ pager.user_id = None /\ pager.persnr = None
    /\ pager.employee_alias = None
    /\ pager.error = "ValueError" /\ pager.net = <<>>

\* C29: test_connection never raises; it returns True exactly when the
\* token was there or obtained, the API answered the GET with a status
\* below 400 and the body could be parsed, and False otherwise.
C29_TestConnectionIsBoolean ==
    last.op = "test_connection" =>
        /\ last.raised = "none"
        /\ last.returned \in {"True", "False"}
        /\ last.returned = "True" <=>
              /\ last.auth_raised = "none"
              /\ last.api # NoApiResponse
              /\ last.api.raises = NoException
              /\ last.api.status_code < 400
              /\ last.body_raises = NoException

\* C29 witness: the token endpoint's answer made the refresh fail with an
\* exception that is not one of the client's own, and test_connection
\* returned False.
C29_Witness ==
    /\ last.op = "test_connection"
    /\ last.calls = 1 /\ last.auth_raised = "TypeError"
    /\ last.net = <<"token">>
    /\ last.returned = "False" /\ last.raised = "none"

\* ordinal of a date, counted from 0001-01-01 as day 1
ymd2ord(year, month, day) ==
    LET y == year - 1
        before_month == {m \in 1 .. 12 : m < month}
        DaysIn(m) == IF m = 2 THEN (IF year % 4 = 0 /\ (year % 100 # 0 \/ year % 400 = 0)
                                    THEN 29 ELSE 28)
                     ELSE IF m \in {4, 6, 9, 11} THEN 30 ELSE 31
        RECURSIVE Sum(_)
        Sum(S) == IF S = {} THEN 0
                  ELSE LET m == CHOOSE x \in S : TRUE IN DaysIn(m) + Sum(S \ {m})
    IN  y * 365 + y \div 4 - y \div 100 + y \div 400 + Sum(before_month) + day

\* the number made of two digits
TwoDigits(a, b) == 10 * a + b

\* the weighted sum of the digits of pnr with the weights w
Weighted(pnr, w) ==
    LET RECURSIVE Upto(_)
        Upto(i) == IF i = 0 THEN 0 ELSE pnr[i] * w[i] + Upto(i - 1)
    IN  Upto(Len(w))

\* pnr starts with the date 25 * 365 days before today, day of month plus 40
BuiltFromDate(pnr, today) ==
    \E year \in 1900 .. 2100 :
        /\ year % 100 = TwoDigits(pnr[5], pnr[6])
        /\ TwoDigits(pnr[3], pnr[4]) \in 1 .. 12
        /\ TwoDigits(pnr[1], pnr[2]) \in 41 .. 71
        /\ ymd2ord(year, TwoDigits(pnr[3], pnr[4]), TwoDigits(pnr[1], pnr[2]) - 40)
               = today - 25 * 365

\* pnr is a string of 11 decimal digits with the claimed properties
GoodPersnr(pnr, today) ==
    /\ pnr.t = "str"
    /\ Len(pnr.v) = 11
    /\ \A i \in 1 .. 11 : pnr.v[i] \in 0 .. 9
    /\ BuiltFromDate(pnr.v, today)
    /\ pnr.v[9] % 2 = 0
    /\ Weighted(pnr.v, VEKT1) % 11 = 0
    /\ Weighted(pnr.v, VEKT2) % 11 = 0
    /\ 11 - (Weighted(pnr.v, SubSeq(VEKT1, 1, 9)) % 11) = pnr.v[10]
    /\ 11 - (Weighted(pnr.v, SubSeq(VEKT2, 1, 10)) % 11) = pnr.v[11]

\* C30: generate_test_persnrs returns exactly 40 strings, each of 11 decimal
\* digits, built from the date 25 * 365 days before today with 40 added to
\* the day of month and an even individual number, each passing both MOD11
\* checks, and none with a control digit computed as 10 or 11
C30_FortyValidPersnrs ==
    persnrs.called =>
        /\ Len(persnrs.result) = 40
        /\ \A i \in 1 .. Len(persnrs.result) :
               GoodPersnr(persnrs.result[i], persnrs.today)

\* a call has returned its list on a day whose date 25 * 365 days earlier is
\* a leap day
C30_Witness ==
    /\ persnrs.called
    /\ Len(persnrs.result) = 40
    /\ persnrs.result[1].v[1] = 6 /\ persnrs.result[1].v[2] = 9
    /\ persnrs.result[1].v[3] = 0 /\ persnrs.result[1].v[4] = 2

====
